---- MODULE Spec2Model ----
(***************************************************************************)
(* goto :: Flexible Working Directory Shortcuts (src/main.rs).             *)
(*                                                                         *)
(* A string (Rust String, PathBuf, OsStr) is a sequence of one-character   *)
(* strings, so that byte length, prefixes, separators and the spelling of  *)
(* a stored path are what they are in the program.  Paths are Unix paths.  *)
(***************************************************************************)
EXTENDS Integers, Sequences, FiniteSets

VARIABLES
    fs,             \* the file system: config file path -> what opening/parsing it gives
    cwd,            \* env::current_dir()
    pc,             \* position of main: "load", "home", "resolve", "exited"
    idx,            \* number of search paths read_combine_configs has gone through
    combined,       \* read_combine_configs: the accumulator `combined`
    config,         \* main: `config`, the Configuration read_combine_configs returned
    reads,          \* the config file paths read_config was called on, in order
    args,           \* main: the decoded Args used by the resolution
    result,         \* main: the `path` found by the lookup and given to print_path
    stdout,         \* the lines print_path printed
    stderr,         \* what was written to stderr (diagnostic or listing)
    exit_code,      \* the process exit code, NoExit while running
    t,              \* parse_toml_as_path: the TOML value `t`
    relative_to,    \* parse_toml_as_path: the base `relative_to`
    parsed          \* parse_toml_as_path: its result, unset before the call

vars == <<fs, cwd, pc, idx, combined, config, reads, args, result, stdout, stderr,
          exit_code, t, relative_to, parsed>>

mainVars == <<fs, cwd, pc, idx, combined, config, reads, args, result, stdout, stderr,
              exit_code>>
pathVars == <<t, relative_to, parsed>>

----------------------------------------------------------------------------
(* Bounds of the model. *)

\* the most config files that exist (readable or not) on the file system
MaxFiles == 2
\* the longest string value given to parse_toml_as_path in SpecPath
MaxLen == 3

----------------------------------------------------------------------------
(* Strings and bytes. *)

\* The characters the model uses, in ASCII order (String and OsStr compare by bytes).
Chars == <<"'", "*", ".", "/", "\\", "e", "g", "h", "l", "m", "o", "p", "q", "r",
           "s", "t", "u", "w", "x", "y", "~">>

Code(c) == CHOOSE i \in 1..Len(Chars) : Chars[i] = c

\* a < b for two strings, bytewise lexicographic (Ord for str / [u8])
RECURSIVE StrLess(_, _)
StrLess(a, b) ==
    IF b = <<>> THEN FALSE
    ELSE IF a = <<>> THEN TRUE
    ELSE IF a[1] # b[1] THEN Code(a[1]) < Code(b[1])
    ELSE StrLess(Tail(a), Tail(b))

\* str::starts_with
starts_with(s, prefix) ==
    /\ Len(s) >= Len(prefix)
    /\ SubSeq(s, 1, Len(prefix)) = prefix

\* &s[n..]
SliceFrom(s, n) == SubSeq(s, n + 1, Len(s))

CONFIG_FILENAME == <<".", "g", "o", "t", "o", ".", "t", "o", "m", "l">>
DEFAULT_SHELLCMD == <<"p", "u", "s", "h", "d">>
DEFAULT_NAME == <<"*">>

----------------------------------------------------------------------------
(* std::path on Unix, as far as the program uses it. *)

IsSep(c) == c = "/"

\* Path::is_absolute: on Unix, the path has a root
is_absolute(p) == Len(p) > 0 /\ IsSep(p[1])

\* Path::join / PathBuf::push: an absolute operand replaces the base; otherwise a
\* separator is added unless the base is empty or already ends with one.
join(base, p) ==
    IF is_absolute(p) THEN p
    ELSE IF Len(base) > 0 /\ ~IsSep(base[Len(base)]) THEN base \o <<"/">> \o p
    ELSE base \o p

\* The pieces of s between separators (empty pieces included).
RECURSIVE SplitSep(_, _)
SplitSep(s, cur) ==
    IF s = <<>> THEN <<cur>>
    ELSE IF IsSep(s[1]) THEN <<cur>> \o SplitSep(Tail(s), <<>>)
    ELSE SplitSep(Tail(s), Append(cur, s[1]))

RootDir == [kind |-> "RootDir", s |-> <<>>]
CurDir == [kind |-> "CurDir", s |-> <<>>]
ParentDir == [kind |-> "ParentDir", s |-> <<>>]
Normal(s) == [kind |-> "Normal", s |-> s]

\* Path::components: empty pieces and "." are dropped (a leading "." of a
\* relative path is kept as CurDir), ".." is kept as ParentDir.
RECURSIVE PieceComponents(_, _)
PieceComponents(pieces, first) ==
    IF pieces = <<>> THEN <<>>
    ELSE LET p == Head(pieces)
             rest == Tail(pieces)
         IN  IF p = <<>> THEN PieceComponents(rest, FALSE)
             ELSE IF p = <<".">> THEN
                 (IF first THEN <<CurDir>> ELSE <<>>) \o PieceComponents(rest, FALSE)
             ELSE IF p = <<".", ".">> THEN <<ParentDir>> \o PieceComponents(rest, FALSE)
             ELSE <<Normal(p)>> \o PieceComponents(rest, FALSE)

components(p) ==
    IF is_absolute(p) THEN <<RootDir>> \o PieceComponents(SplitSep(Tail(p), <<>>), FALSE)
    ELSE IF p = <<>> THEN <<>>
    ELSE PieceComponents(SplitSep(p, <<>>), TRUE)

\* PartialEq for Path: equality of the components, not of the spelling
PathEq(a, b) == components(a) = components(b)

\* Path::starts_with: `base` is a prefix of p, whole components only
path_starts_with(p, base) ==
    LET cp == components(p)
        cb == components(base)
    IN  /\ Len(cb) <= Len(cp)
        /\ SubSeq(cp, 1, Len(cb)) = cb

\* derive(Ord) for Component: the variants in declaration order, Normal by bytes
KindRank(k) ==
    CASE k = "RootDir" -> 1
      [] k = "CurDir" -> 2
      [] k = "ParentDir" -> 3
      [] k = "Normal" -> 4

ComponentLess(a, b) ==
    IF a.kind # b.kind THEN KindRank(a.kind) < KindRank(b.kind)
    ELSE StrLess(a.s, b.s)

\* Ord for Path: lexicographic over the components
RECURSIVE ComponentsLess(_, _)
ComponentsLess(a, b) ==
    IF b = <<>> THEN FALSE
    ELSE IF a = <<>> THEN TRUE
    ELSE IF a[1] # b[1] THEN ComponentLess(a[1], b[1])
    ELSE ComponentsLess(Tail(a), Tail(b))

PathLess(a, b) == ComponentsLess(components(a), components(b))

\* s without its trailing separators and trailing "." pieces (which are no
\* components), the root's own separator kept
RECURSIVE TrimSeps(_)
TrimSeps(s) ==
    IF Len(s) > 1 /\ IsSep(s[Len(s)]) THEN TrimSeps(SubSeq(s, 1, Len(s) - 1))
    ELSE IF Len(s) > 1 /\ s[Len(s)] = "." /\ IsSep(s[Len(s) - 1])
         THEN TrimSeps(SubSeq(s, 1, Len(s) - 1))
    ELSE s

\* s without its trailing non-separator characters
RECURSIVE TrimName(_)
TrimName(s) ==
    IF Len(s) > 0 /\ ~IsSep(s[Len(s)]) THEN TrimName(SubSeq(s, 1, Len(s) - 1)) ELSE s

NoPath == [some |-> FALSE, path |-> <<>>]
SomePath(p) == [some |-> TRUE, path |-> p]

\* Path::parent: None for the root and for the empty path, else the path
\* without its last component.
parent(p) ==
    LET c == components(p)
    IN  IF c = <<>> \/ c[Len(c)].kind = "RootDir" THEN NoPath
        ELSE SomePath(TrimSeps(TrimName(TrimSeps(p))))

----------------------------------------------------------------------------
(* TOML values. *)

EmptyMap == [x \in {} |-> <<>>]

TomlString(s) == [type |-> "string", s |-> s, tbl |-> EmptyMap]
TomlInteger == [type |-> "integer", s |-> <<>>, tbl |-> EmptyMap]
TomlTable(tbl) == [type |-> "table", s |-> <<>>, tbl |-> tbl]

\* dirs::home_dir()
HomeDir == <<"/", "h">>

PathOk(p) == [ok |-> TRUE, path |-> p, msg |-> ""]
PathErr(m) == [ok |-> FALSE, path |-> <<>>, msg |-> m]

\* the string case of parse_toml_as_path with the home marker test left to "~/" only
parse_toml_as_path_unix_only(v, rel) ==
    IF v.type = "string" THEN
        PathOk(IF starts_with(v.s, <<"~", "/">>)
               THEN join(HomeDir, SliceFrom(v.s, 2))
               ELSE join(rel, v.s))
    ELSE PathErr("type error")

\* parse_toml_as_path
parse_toml_as_path(v, rel) ==
    IF v.type = "string" THEN
        PathOk(IF starts_with(v.s, <<"~", "/">>) \/ starts_with(v.s, <<"~", "\\">>)
               THEN join(HomeDir, SliceFrom(v.s, 2))
               ELSE join(rel, v.s))
    ELSE PathErr("type error")

----------------------------------------------------------------------------
(* BTreeMap, PathMapping and Configuration. *)

\* BTreeMap::insert for a map keyed by String
MapInsert(m, k, v) == [x \in DOMAIN m \cup {k} |-> IF x = k THEN v ELSE m[x]]

\* BTreeMap::append for a map keyed by String: on a key of both, the value of `other`
map_append(m, other) ==
    [k \in DOMAIN m \cup DOMAIN other |-> IF k \in DOMAIN other THEN other[k] ELSE m[k]]

\* the iteration order of a BTreeMap keyed by String
RECURSIVE SortStrs(_)
SortStrs(S) ==
    IF S = {} THEN <<>>
    ELSE LET m == CHOOSE a \in S : \A b \in S \ {a} : StrLess(a, b)
         IN  <<m>> \o SortStrs(S \ {m})

\* the iteration order of a BTreeMap keyed by PathBuf (its keys differ pairwise
\* in their components)
RECURSIVE SortPaths(_)
SortPaths(S) ==
    IF S = {} THEN <<>>
    ELSE LET m == CHOOSE a \in S : \A b \in S \ {a} : PathLess(a, b)
         IN  <<m>> \o SortPaths(S \ {m})

\* the keys of a BTreeMap keyed by PathBuf that are equal to `key` (at most one)
Occupied(contexts, key) == {k \in DOMAIN contexts : PathEq(k, key)}

\* BTreeMap::insert for a map keyed by PathBuf: an equal key keeps its stored
\* spelling and gets the new value
btree_insert(contexts, key, value) ==
    IF Occupied(contexts, key) # {}
    THEN [contexts EXCEPT ![CHOOSE k \in Occupied(contexts, key) : TRUE] = value]
    ELSE MapInsert(contexts, key, value)

\* Configuration::default()
EmptyConfiguration == [global |-> EmptyMap, contexts |-> EmptyMap]

ConfigOk(c) == [ok |-> TRUE, config |-> c, at |-> <<>>]
ConfigErr(k) == [ok |-> FALSE, config |-> EmptyConfiguration, at |-> k]

\* process_config, the loop over a context's table (names in BTreeMap order)
RECURSIVE ContextMapFrom(_, _, _, _)
ContextMapFrom(tbl, names, context_path, context_map) ==
    IF names = <<>> THEN [ok |-> TRUE, map |-> context_map, at |-> <<>>]
    ELSE LET name == Head(names)
             mapped_path == parse_toml_as_path(tbl[name], context_path)
         IN  IF ~mapped_path.ok THEN [ok |-> FALSE, map |-> EmptyMap, at |-> name]
             ELSE ContextMapFrom(tbl, Tail(names), context_path,
                                 MapInsert(context_map, name, mapped_path.path))

\* process_config, the loop over the top-level keys (in BTreeMap order)
RECURSIVE ProcessFrom(_, _, _, _)
ProcessFrom(config_toml, keys, rel, cfg) ==
    IF keys = <<>> THEN ConfigOk(cfg)
    ELSE LET k == Head(keys)
             v == config_toml[k]
         IN  IF v.type = "table" THEN
                 LET context_path == parse_toml_as_path(TomlString(k), rel).path
                     cm == ContextMapFrom(v.tbl, SortStrs(DOMAIN v.tbl), context_path, EmptyMap)
                 IN  IF ~cm.ok THEN ConfigErr(cm.at)
                     ELSE ProcessFrom(config_toml, Tail(keys), rel,
                              [cfg EXCEPT !.contexts = btree_insert(@, context_path, cm.map)])
             ELSE
                 LET path == parse_toml_as_path(v, rel)
                 IN  IF ~path.ok THEN ConfigErr(k)
                     ELSE ProcessFrom(config_toml, Tail(keys), rel,
                              [cfg EXCEPT !.global = MapInsert(@, k, path.path)])

process_config(config_toml, rel) ==
    ProcessFrom(config_toml, SortStrs(DOMAIN config_toml), rel, EmptyConfiguration)

\* combine_configs, the loop over overlay.contexts
RECURSIVE CombineContexts(_, _, _)
CombineContexts(contexts, overlay_contexts, keys) ==
    IF keys = <<>> THEN contexts
    ELSE LET context_path == Head(keys)
             context == overlay_contexts[context_path]
             occ == Occupied(contexts, context_path)
         IN  CombineContexts(
                 IF occ # {}
                 THEN [contexts EXCEPT ![CHOOSE k \in occ : TRUE] = map_append(@, context)]
                 ELSE MapInsert(contexts, context_path, context),
                 overlay_contexts, Tail(keys))

\* combine_configs with an occupied context replaced by the overlay's
combine_configs_replace(base, overlay) ==
    [global |-> map_append(base.global, overlay.global),
     contexts |-> [k \in DOMAIN base.contexts \cup
                        {o \in DOMAIN overlay.contexts : Occupied(base.contexts, o) = {}} |->
                     IF k \in DOMAIN base.contexts /\ Occupied(overlay.contexts, k) # {}
                     THEN overlay.contexts[CHOOSE o \in Occupied(overlay.contexts, k) : TRUE]
                     ELSE IF k \in DOMAIN base.contexts THEN base.contexts[k]
                     ELSE overlay.contexts[k]]]

\* combine_configs
combine_configs(base, overlay) ==
    [global |-> map_append(base.global, overlay.global),
     contexts |-> CombineContexts(base.contexts, overlay.contexts,
                                  SortPaths(DOMAIN overlay.contexts))]

----------------------------------------------------------------------------
(* Reading configuration files. *)

\* what File::open + read_to_string + toml::Parser::parse give for a file
Absent == [state |-> "NotFound", toml |-> EmptyMap]
Unreadable == [state |-> "PermissionDenied", toml |-> EmptyMap]
Malformed == [state |-> "ParseError", toml |-> EmptyMap]
Parsed(tbl) == [state |-> "Ok", toml |-> tbl]

ReadNone == [kind |-> "None", config |-> EmptyConfiguration, file |-> <<>>, what |-> ""]
ReadSome(c) == [kind |-> "Some", config |-> c, file |-> <<>>, what |-> ""]
ReadErr(f, w) == [kind |-> "Err", config |-> EmptyConfiguration, file |-> f, what |-> w]

\* read_config with every failure to read taken for a missing file
read_config_lenient(f, config_path) ==
    LET file == f[config_path]
    IN  IF file.state # "Ok" THEN ReadNone
        ELSE LET r == process_config(file.toml, parent(config_path).path)
             IN  IF r.ok THEN ReadSome(r.config) ELSE ReadNone

\* read_config on the file system f
read_config(f, config_path) ==
    LET file == f[config_path]
    IN  IF file.state = "NotFound" THEN ReadNone
        ELSE IF file.state # "Ok" THEN ReadErr(config_path, "failed to read configuration")
        ELSE LET r == process_config(file.toml, parent(config_path).path)
             IN  IF r.ok THEN ReadSome(r.config)
                 ELSE ReadErr(config_path, "invalid configuration")

\* read_combine_configs, lines 207-213: cwd, parent(cwd), ..., the root
RECURSIVE search_paths(_)
search_paths(path) ==
    <<path>> \o (IF parent(path).some THEN search_paths(parent(path).path) ELSE <<>>)

Reverse(s) == [i \in 1..Len(s) |-> s[Len(s) + 1 - i]]

\* main, line 268
home_config_path == join(HomeDir, CONFIG_FILENAME)

\* the config file paths read_combine_configs reads for a cwd, in its order
LoadOrder(dir) ==
    [i \in 1..Len(search_paths(dir)) |-> join(Reverse(search_paths(dir))[i], CONFIG_FILENAME)]
    \o <<home_config_path>>

----------------------------------------------------------------------------
(* The resolution of main, lines 278-324. *)

\* exit, line 235
exit_status(fatal) == IF fatal THEN 1 ELSE 0

NoExit == [exited |-> FALSE, code |-> 0]
Exited(code) == [exited |-> TRUE, code |-> code]

NoStderr == [kind |-> "none", file |-> <<>>, what |-> "", listing |-> EmptyMap]
FatalMsg(f, w) == [kind |-> "fatal", file |-> f, what |-> w, listing |-> EmptyMap]
MissMsg == [kind |-> "miss", file |-> <<>>, what |-> "not sure where to go", listing |-> EmptyMap]
Listing(m) == [kind |-> "list", file |-> <<>>, what |-> "", listing |-> m]

\* str::replace("'", "'\\''")
RECURSIVE Escape(_)
Escape(s) ==
    IF s = <<>> THEN <<>>
    ELSE (IF s[1] = "'" THEN <<"'", "\\", "'", "'">> ELSE <<s[1]>>) \o Escape(Tail(s))

\* print_path: the line printed
print_path(path, shellcmd, extra) ==
    (IF shellcmd # <<>> THEN shellcmd \o <<" ">> ELSE <<>>)
    \o <<"'">> \o Escape(join(path, extra)) \o <<"'">>

\* sort_by_key(|p| p.as_os_str().len()): a stable sort, so p goes behind
\* every element that is not longer
RECURSIVE InsertByLen(_, _)
InsertByLen(s, p) ==
    IF s = <<>> THEN <<p>>
    ELSE IF Len(Head(s)) <= Len(p) THEN <<Head(s)>> \o InsertByLen(Tail(s), p)
    ELSE <<p>> \o s

RECURSIVE sort_by_len(_)
sort_by_len(s) ==
    IF s = <<>> THEN <<>>
    ELSE InsertByLen(sort_by_len(SubSeq(s, 1, Len(s) - 1)), s[Len(s)])

\* lines 284-286 with the contexts visited shortest first
context_paths_shortest_first(cfg) == sort_by_len(SortPaths(DOMAIN cfg.contexts))

\* lines 284-286: the order in which the loop visits the context paths
context_paths_by_len_rev(cfg) == Reverse(sort_by_len(SortPaths(DOMAIN cfg.contexts)))

\* lines 286-301, not --list: the first visited context that cwd is under and
\* that has the name
RECURSIVE LookupFrom(_, _, _, _)
LookupFrom(cfg, paths, dir, name) ==
    IF paths = <<>> THEN NoPath
    ELSE IF path_starts_with(dir, Head(paths)) /\ name \in DOMAIN cfg.contexts[Head(paths)]
         THEN SomePath(cfg.contexts[Head(paths)][name])
    ELSE LookupFrom(cfg, Tail(paths), dir, name)

\* lines 315-320 skipped: a miss in the contexts is final
lookup_without_global(cfg, dir, name) ==
    LookupFrom(cfg, context_paths_by_len_rev(cfg), dir, name)

\* lines 283-320, not --list: the contexts, then the global table
lookup(cfg, dir, name) ==
    LET found == LookupFrom(cfg, context_paths_by_len_rev(cfg), dir, name)
    IN  IF found.some THEN found
        ELSE IF name \in DOMAIN cfg.global THEN SomePath(cfg.global[name])
        ELSE NoPath

\* lines 290-294, 304-308: insert the entries whose name is vacant
InsertVacant(effective_map, map) ==
    [k \in DOMAIN effective_map \cup DOMAIN map |->
        IF k \in DOMAIN effective_map THEN effective_map[k] ELSE map[k]]

\* the same with an occupied entry overwritten
InsertAll(effective_map, map) ==
    [k \in DOMAIN effective_map \cup DOMAIN map |->
        IF k \in DOMAIN map THEN map[k] ELSE effective_map[k]]

\* lines 286-301, --list
RECURSIVE EffectiveFrom(_, _, _, _)
EffectiveFrom(cfg, paths, dir, effective_map) ==
    IF paths = <<>> THEN effective_map
    ELSE EffectiveFrom(cfg, Tail(paths), dir,
             IF path_starts_with(dir, Head(paths))
             THEN InsertVacant(effective_map, cfg.contexts[Head(paths)])
             ELSE effective_map)

\* the listing with first-write-wins replaced by last-write-wins
effective_last_wins(cfg, dir) ==
    InsertAll(EffectiveFrom(cfg, context_paths_by_len_rev(cfg), dir, EmptyMap), cfg.global)

\* lines 279-311, --list: the table that is listed
effective(cfg, dir) ==
    InsertVacant(EffectiveFrom(cfg, context_paths_by_len_rev(cfg), dir, EmptyMap), cfg.global)

----------------------------------------------------------------------------
(* The inputs: the file system, the working directory, the arguments. *)

X == <<"x">>

\* the directories that may hold a config file
Dirs == { <<"/">>, <<"/", "h">>, <<"/", "h", "/", "w">>, <<"/", "t">> }

ConfigPaths == { join(d, CONFIG_FILENAME) : d \in Dirs }

CwdSet == { <<"/">>, <<"/", "h">>, <<"/", "h", "/", "w">>, <<"/", "t">> }

Entry(k, v) == [x \in {k} |-> v]

\* x = "p"   "*" = "~/r"
TableGlobal ==
    map_append(Entry(X, TomlString(<<"p">>)),
               Entry(DEFAULT_NAME, TomlString(<<"~", "/", "r">>)))

\* ["/h"]   x = "p"
TableHome == Entry(<<"/", "h">>, TomlTable(Entry(X, TomlString(<<"p">>))))

\* ["/h/w"]   x = "/q"   "*" = "s"
TableWork ==
    Entry(<<"/", "h", "/", "w">>,
          TomlTable(map_append(Entry(X, TomlString(<<"/", "q">>)),
                               Entry(DEFAULT_NAME, TomlString(<<"s">>)))))

\* ["w"]   "*" = "../x"
TableRelative == Entry(<<"w">>, TomlTable(Entry(DEFAULT_NAME, TomlString(<<".", ".", "/", "x">>))))

\* "*" = "p"      ["/h///"]   x = "q"
TableSeps ==
    map_append(Entry(DEFAULT_NAME, TomlString(<<"p">>)),
               Entry(<<"/", "h", "/", "/", "/">>, TomlTable(Entry(X, TomlString(<<"q">>)))))

\* ["/h"]   x = "p"      ["/h/"]   "*" = "s"
TableTwice ==
    map_append(Entry(<<"/", "h">>, TomlTable(Entry(X, TomlString(<<"p">>)))),
               Entry(<<"/", "h", "/">>, TomlTable(Entry(DEFAULT_NAME, TomlString(<<"s">>)))))

\* x = 1
TableInteger == Entry(X, TomlInteger)

\* ["/h"]   x = 1
TableNestedInteger == Entry(<<"/", "h">>, TomlTable(Entry(X, TomlInteger)))

\* x = "/g"      ["/h"]   x = "p"      ["/t"]   "*" = "s"
TableMixed ==
    map_append(Entry(X, TomlString(<<"/", "g">>)),
        map_append(Entry(<<"/", "h">>, TomlTable(Entry(X, TomlString(<<"p">>)))),
                   Entry(<<"/", "t">>, TomlTable(Entry(DEFAULT_NAME, TomlString(<<"s">>))))))

\* ["/h//"]   x = "s"
TableTie == Entry(<<"/", "h", "/", "/">>, TomlTable(Entry(X, TomlString(<<"s">>))))

Tables == { TableGlobal, TableHome, TableWork, TableRelative, TableSeps, TableTwice,
            TableInteger, TableNestedInteger, TableMixed, TableTie }

FileStates == { Absent, Unreadable, Malformed } \cup { Parsed(tbl) : tbl \in Tables }

\* the file systems for a run in dir: files that the run never opens are left
\* out (Absent), and at most MaxFiles of the others exist
FileSystems(dir) ==
    LET candidates == { LoadOrder(dir)[i] : i \in 1..Len(LoadOrder(dir)) }
        existing == { S \in SUBSET candidates : Cardinality(S) <= MaxFiles }
    IN  { [p \in ConfigPaths |-> IF p \in DOMAIN g THEN g[p] ELSE Absent] :
              g \in UNION { [S -> FileStates \ {Absent}] : S \in existing } }

NoArg == [some |-> FALSE, s |-> <<>>]
SomeArg(s) == [some |-> TRUE, s |-> s]
unwrap_or(arg, default) == IF arg.some THEN arg.s ELSE default

NoArgs == [decoded |-> FALSE, arg_name |-> NoArg, arg_extra |-> NoArg, flag_list |-> FALSE]
Args(n, e, l) == [decoded |-> TRUE, arg_name |-> n, arg_extra |-> e, flag_list |-> l]

\* main, lines 262-263
name_of(a) == unwrap_or(a.arg_name, DEFAULT_NAME)
extra_of(a) == unwrap_or(a.arg_extra, <<>>)

NameArgs == { NoArg, SomeArg(X) }
ExtraArgs == { NoArg, SomeArg(<<"e">>) }

NoConfig == [returned |-> FALSE, cfg |-> EmptyConfiguration]
Returned(c) == [returned |-> TRUE, cfg |-> c]

NoParse == [called |-> FALSE, ok |-> FALSE, path |-> <<>>, msg |-> ""]

----------------------------------------------------------------------------
(* One run of main. *)

\* main after lines 252-272: the arguments, the home directory and the working
\* directory were obtained, nothing is read yet
Init ==
    /\ cwd \in CwdSet
    /\ fs \in FileSystems(cwd)
    /\ pc = "load"
    /\ idx = 0
    /\ combined = EmptyConfiguration
    /\ config = NoConfig
    /\ reads = <<>>
    /\ args = NoArgs
    /\ result = NoPath
    /\ stdout = <<>>
    /\ stderr = NoStderr
    /\ exit_code = NoExit
    /\ t = TomlInteger
    /\ relative_to = <<>>
    /\ parsed = NoParse

\* read_combine_configs, one turn of the loop of lines 216-221; an error leaves
\* through `?` and main's unwrap_or_else(exit(&msg, true)), line 274-276
ReadDir ==
    /\ pc = "load"
    /\ idx < Len(search_paths(cwd))
    /\ LET toml_path == join(Reverse(search_paths(cwd))[idx + 1], CONFIG_FILENAME)
           r == read_config(fs, toml_path)
       IN  /\ reads' = Append(reads, toml_path)
           /\ IF r.kind = "Err"
              THEN /\ pc' = "exited"
                   /\ stderr' = FatalMsg(r.file, r.what)
                   /\ exit_code' = Exited(exit_status(TRUE))
                   /\ UNCHANGED <<idx, combined>>
              ELSE /\ combined' = IF r.kind = "Some" THEN combine_configs(combined, r.config)
                                  ELSE combined
                   /\ idx' = idx + 1
                   /\ pc' = IF idx + 1 = Len(search_paths(cwd)) THEN "home" ELSE "load"
                   /\ UNCHANGED <<stderr, exit_code>>
    /\ UNCHANGED <<fs, cwd, config, args, result, stdout, pathVars>>

\* read_combine_configs, lines 223-227, and its return to main
ReadHome ==
    /\ pc = "home"
    /\ LET r == read_config(fs, home_config_path)
       IN  /\ reads' = Append(reads, home_config_path)
           /\ IF r.kind = "Err"
              THEN /\ pc' = "exited"
                   /\ stderr' = FatalMsg(r.file, r.what)
                   /\ exit_code' = Exited(exit_status(TRUE))
                   /\ UNCHANGED <<combined, config>>
              ELSE /\ combined' = IF r.kind = "Some" THEN combine_configs(combined, r.config)
                                  ELSE combined
                   /\ config' = Returned(combined')
                   /\ pc' = "resolve"
                   /\ UNCHANGED <<stderr, exit_code>>
    /\ UNCHANGED <<fs, cwd, idx, args, result, stdout, pathVars>>

\* main, lines 278-325 without --list; the arguments decoded at lines 252-263
\* are not used before, and are drawn here
Lookup ==
    /\ pc = "resolve"
    /\ \E n \in NameArgs, e \in ExtraArgs :
        LET a == Args(n, e, FALSE)
            found == lookup(config.cfg, cwd, name_of(a))
        IN  /\ args' = a
            /\ result' = found
            /\ IF found.some
               THEN /\ stdout' = Append(stdout, print_path(found.path, DEFAULT_SHELLCMD, extra_of(a)))
                    /\ stderr' = stderr
                    /\ exit_code' = Exited(0)
               ELSE /\ stdout' = stdout
                    /\ stderr' = MissMsg
                    /\ exit_code' = Exited(exit_status(FALSE))
    /\ pc' = "exited"
    /\ UNCHANGED <<fs, cwd, idx, combined, config, reads, pathVars>>

\* main, lines 278-325 with --list
List ==
    /\ pc = "resolve"
    /\ args' = Args(NoArg, NoArg, TRUE)
    /\ stderr' = Listing(effective(config.cfg, cwd))
    /\ exit_code' = Exited(0)
    /\ pc' = "exited"
    /\ UNCHANGED <<fs, cwd, idx, combined, config, reads, result, stdout, pathVars>>

Next == ReadDir \/ ReadHome \/ Lookup \/ List

Spec == Init /\ [][Next]_vars

----------------------------------------------------------------------------
(* parse_toml_as_path on its own: every short string against every base. *)

PathChars == { "~", "/", "\\", ".", "p" }

RECURSIVE StringsUpTo(_)
StringsUpTo(n) ==
    IF n = 0 THEN { <<>> }
    ELSE LET shorter == StringsUpTo(n - 1)
         IN  shorter \cup { Append(s, c) : s \in { x \in shorter : Len(x) = n - 1 }, c \in PathChars }

TomlValues ==
    { TomlString(s) : s \in StringsUpTo(MaxLen) }
    \cup { TomlInteger, TomlTable(EmptyMap) }

Bases == { <<"/">>, <<"/", "h">>, <<"/", "h", "/", "w">>, <<"/", "t", "/">> }

InitPath ==
    /\ t \in TomlValues
    /\ relative_to \in Bases
    /\ parsed = NoParse
    /\ fs = [p \in ConfigPaths |-> Absent]
    /\ cwd = HomeDir
    /\ pc = "exited"
    /\ idx = 0
    /\ combined = EmptyConfiguration
    /\ config = NoConfig
    /\ reads = <<>>
    /\ args = NoArgs
    /\ result = NoPath
    /\ stdout = <<>>
    /\ stderr = NoStderr
    /\ exit_code = NoExit

ParseTomlAsPath ==
    /\ ~parsed.called
    /\ LET r == parse_toml_as_path(t, relative_to)
       IN  parsed' = [called |-> TRUE, ok |-> r.ok, path |-> r.path, msg |-> r.msg]
    /\ UNCHANGED <<t, relative_to, mainVars>>

NextPath == ParseTomlAsPath

SpecPath == InitPath /\ [][NextPath]_vars

----------------------------------------------------------------------------
(* Vocabulary of the properties. *)

\* a run that ended in a direct (non --list) lookup
Direct == pc = "exited" /\ args.decoded /\ ~args.flag_list

\* a run that ended in a listing
Listed == pc = "exited" /\ args.decoded /\ args.flag_list

\* the context paths of cfg that dir is at or under
Applicable(cfg, dir) == { c \in DOMAIN cfg.contexts : path_starts_with(dir, c) }

\* the applicable contexts that have an entry for name
Defining(cfg, dir, name) == { c \in Applicable(cfg, dir) : name \in DOMAIN cfg.contexts[c] }

\* the members of S with the longest stored path string
Longest(S) == { c \in S : \A d \in S : Len(d) <= Len(c) }

\* the members of S with the most path components
Deepest(S) == { c \in S : \A d \in S : Len(components(d)) <= Len(components(c)) }

\* outcome Resolved(p): p was found, one path line was printed for it, exit code 0
Resolved(p) ==
    /\ result = SomePath(p)
    /\ stdout = <<print_path(p, DEFAULT_SHELLCMD, extra_of(args))>>
    /\ stderr = NoStderr
    /\ exit_code = Exited(0)

\* outcome NotFound: nothing printed, only the diagnostic, exit code 0
NotFound ==
    /\ result = NoPath
    /\ stdout = <<>>
    /\ stderr = MissMsg
    /\ exit_code = Exited(0)

GlobalOrNotFound(cfg, name) ==
    IF name \in DOMAIN cfg.global THEN Resolved(cfg.global[name]) ELSE NotFound

----------------------------------------------------------------------------
(* C1 *)

\* C1 as stated: a direct lookup consults only the longest applicable context:
\* if that context has the name the result is its entry, and if it has not,
\* the result comes from the global scope (or is NotFound), never from a
\* shorter applicable context.
C1_OnlyLongestContextConsulted ==
    Direct =>
        LET cfg == config.cfg
            name == name_of(args)
            app == Applicable(cfg, cwd)
        IN  app # {} =>
                \E c \in Longest(app) :
                    IF name \in DOMAIN cfg.contexts[c]
                    THEN Resolved(cfg.contexts[c][name])
                    ELSE GlobalOrNotFound(cfg, name)

\* C1 amended: a direct lookup returns the entry of an applicable context that
\* has the name and whose stored path is at least as long as that of every
\* other applicable context that has the name (a longer applicable context
\* without the name is passed over); only when no applicable context has the
\* name is the result taken from the global scope (or NotFound).
C1_LongestDefiningContext ==
    Direct =>
        LET cfg == config.cfg
            name == name_of(args)
            def == Defining(cfg, cwd, name)
        IN  IF def # {}
            THEN \E c \in Longest(def) : Resolved(cfg.contexts[c][name])
            ELSE GlobalOrNotFound(cfg, name)

\* The longest applicable context lacks the name, a shorter one and the global
\* scope both have it, with different values, and the shorter context's is returned.
C1_Witness ==
    /\ Direct
    /\ LET cfg == config.cfg
           name == name_of(args)
           app == Applicable(cfg, cwd)
           def == Defining(cfg, cwd, name)
       IN  /\ def # {}
           /\ \A c \in Longest(app) : c \notin def
           /\ name \in DOMAIN cfg.global
           /\ \E c \in def : /\ cfg.contexts[c][name] # cfg.global[name]
                              /\ result = SomePath(cfg.contexts[c][name])

----------------------------------------------------------------------------
(* C3 *)

\* C3: of two applicable contexts that both define the name, one strictly
\* nested under the other, a direct lookup returns the value of the nested
\* (deeper) one, whatever the stored spelling of the two context paths.
C3_NestedContextPreferred ==
    Direct =>
        LET cfg == config.cfg
            name == name_of(args)
            def == Defining(cfg, cwd, name)
        IN  def # {} => \E c \in Deepest(def) : result = SomePath(cfg.contexts[c][name])

----------------------------------------------------------------------------
(* C4 *)

\* C4: the listing has, for every name of an applicable context or of the
\* global scope and for no other name, the value of the longest applicable
\* context defining it, else the global one; contexts that are not applicable
\* contribute nothing, and no path line is printed.
C4_ListFirstWriteWins ==
    Listed =>
        LET cfg == config.cfg
            app == Applicable(cfg, cwd)
            listing == stderr.listing
        IN  /\ stderr.kind = "list"
            /\ stdout = <<>>
            /\ result = NoPath
            /\ DOMAIN listing = UNION { DOMAIN cfg.contexts[c] : c \in app } \cup DOMAIN cfg.global
            /\ \A n \in DOMAIN listing :
                   LET def == Defining(cfg, cwd, n)
                   IN  IF def # {}
                       THEN \E c \in Longest(def) : listing[n] = cfg.contexts[c][n]
                       ELSE listing[n] = cfg.global[n]

\* A listing with two applicable contexts of different depth and the global
\* scope all defining one name with different values, and a context that does
\* not apply.
C4_Witness ==
    /\ Listed
    /\ LET cfg == config.cfg
           app == Applicable(cfg, cwd)
       IN  /\ DOMAIN cfg.contexts \ app # {}
           /\ \E n \in DOMAIN cfg.global : \E c \in app, d \in app :
                 /\ Len(c) > Len(d)
                 /\ n \in DOMAIN cfg.contexts[c] /\ n \in DOMAIN cfg.contexts[d]
                 /\ cfg.contexts[c][n] # cfg.contexts[d][n]
                 /\ cfg.contexts[c][n] # cfg.global[n]
                 /\ stderr.listing[n] = cfg.contexts[c][n]

----------------------------------------------------------------------------
(* C7 *)

\* C7: when no applicable context has the name (or none applies), a direct
\* lookup gives global[name] if there is one and else NotFound: no path line,
\* only the diagnostic, exit code 0 and not the fatal 1. Every direct lookup
\* ends in exactly one of Resolved and NotFound and prints at most one line.
C7_GlobalFallbackAndMiss ==
    Direct =>
        LET cfg == config.cfg
            name == name_of(args)
        IN  /\ Defining(cfg, cwd, name) = {} => GlobalOrNotFound(cfg, name)
            /\ NotFound => exit_code.code # exit_status(TRUE)
            /\ Len(stdout) <= 1
            /\ (result.some /\ Resolved(result.path)) \/ NotFound
            /\ ~((result.some /\ Resolved(result.path)) /\ NotFound)

\* A miss under an applicable context, with a global table that has other names.
C7_Witness ==
    /\ Direct
    /\ LET cfg == config.cfg
           name == name_of(args)
       IN  /\ Applicable(cfg, cwd) # {}
           /\ Defining(cfg, cwd, name) = {}
           /\ name \notin DOMAIN cfg.global
           /\ DOMAIN cfg.global # {}
           /\ NotFound

----------------------------------------------------------------------------
(* C2 *)

\* the entries <<scope, name, destination>> that the text of a config file
\* defines under its context headers, each resolved as process_config
\* resolves it (the header against the file's directory, the value against
\* the context path)
ContextEntries(file, rel) ==
    UNION { { << join(rel, k), n, parse_toml_as_path(file.toml[k].tbl[n], join(rel, k)).path >> :
                 n \in DOMAIN file.toml[k].tbl } :
            k \in { h \in DOMAIN file.toml : file.toml[h].type = "table" } }

\* the entries <<name, destination>> that the text of a config file defines
\* at its top level
GlobalEntries(file, rel) ==
    { << k, parse_toml_as_path(file.toml[k], rel).path >> :
          k \in { g \in DOMAIN file.toml : file.toml[g].type # "table" } }

\* by position in the load order: the entries of the file read there
FileContextEntries ==
    [i \in 1..Len(LoadOrder(cwd)) |->
        ContextEntries(fs[LoadOrder(cwd)[i]], parent(LoadOrder(cwd)[i]).path)]

FileGlobalEntries ==
    [i \in 1..Len(LoadOrder(cwd)) |->
        GlobalEntries(fs[LoadOrder(cwd)[i]], parent(LoadOrder(cwd)[i]).path)]

\* C2: the files are merged in the order root, ..., parent(cwd), cwd, home; for
\* every scope (global, or one context path) and name defined by more than one
\* of the files, the returned Configuration holds the value of the file latest
\* in that order that defines it: deeper overrides shallower, and home
\* overrides every directory.
C2_LatestFileWins ==
    config.returned =>
        LET ctx == FileContextEntries
            glb == FileGlobalEntries
            last == Len(ctx)
            cfg == config.cfg
        IN  /\ \A i \in 2..last : \A e \in glb[i] :
                   ( /\ \E j \in 1..(i - 1) : \E d \in glb[j] : d[1] = e[1]
                     /\ \A j \in (i + 1)..last : \A d \in glb[j] : d[1] # e[1] ) =>
                       /\ e[1] \in DOMAIN cfg.global
                       /\ \E d \in glb[i] : d[1] = e[1] /\ cfg.global[e[1]] = d[2]
            /\ \A i \in 2..last : \A e \in ctx[i] :
                   ( /\ \E j \in 1..(i - 1) : \E d \in ctx[j] : PathEq(d[1], e[1]) /\ d[2] = e[2]
                     /\ \A j \in (i + 1)..last : \A d \in ctx[j] :
                            ~(PathEq(d[1], e[1]) /\ d[2] = e[2]) ) =>
                       \E c \in DOMAIN cfg.contexts :
                           /\ PathEq(c, e[1])
                           /\ e[2] \in DOMAIN cfg.contexts[c]
                           /\ \E d \in ctx[i] :
                                  /\ PathEq(d[1], e[1]) /\ d[2] = e[2]
                                  /\ cfg.contexts[c][e[2]] = d[3]

\* what each file of the load order contributes once processed, by position
Contributions == [i \in 1..Len(LoadOrder(cwd)) |-> read_config(fs, LoadOrder(cwd)[i])]

\* a contribution defines name in the global scope / in the context equal to path c
DefinesGlobal(r, name) == r.kind = "Some" /\ name \in DOMAIN r.config.global

DefinesInContext(r, c, name) ==
    /\ r.kind = "Some"
    /\ \E k \in DOMAIN r.config.contexts : PathEq(k, c) /\ name \in DOMAIN r.config.contexts[k]

\* The order of the merge alone: for every scope and name, the returned
\* Configuration holds the value of the latest Configuration, in the order
\* root, ..., cwd, home, that process_config made of a file and that has the
\* entry.
LatestContributionWins ==
    config.returned =>
        LET from == Contributions
            last == Len(from)
            cfg == config.cfg
        IN  \A i \in 1..last :
                from[i].kind = "Some" =>
                    LET file == from[i].config
                    IN  /\ \A n \in DOMAIN file.global :
                               (\A j \in (i + 1)..last : ~DefinesGlobal(from[j], n)) =>
                                   /\ n \in DOMAIN cfg.global
                                   /\ cfg.global[n] = file.global[n]
                        /\ \A k \in DOMAIN file.contexts : \A n \in DOMAIN file.contexts[k] :
                               (\A j \in (i + 1)..last : ~DefinesInContext(from[j], k, n)) =>
                                   \E c \in DOMAIN cfg.contexts :
                                       /\ PathEq(c, k)
                                       /\ n \in DOMAIN cfg.contexts[c]
                                       /\ cfg.contexts[c][n] = file.contexts[k][n]

\* The home directory is an ancestor of cwd, so its file is merged twice; the
\* file in cwd, deeper than home, defines a name that the home file defines
\* with another value, and the home value is the one returned.
HomeOverridesDeeper ==
    /\ config.returned
    /\ LET order == LoadOrder(cwd)
           from == Contributions
           n == Len(order)
       IN  /\ \E i \in 1..(n - 2) : order[i] = home_config_path
           /\ \E name \in DOMAIN config.cfg.global :
                 /\ DefinesGlobal(from[n], name)
                 /\ DefinesGlobal(from[n - 1], name)
                 /\ from[n].config.global[name] # from[n - 1].config.global[name]
                 /\ config.cfg.global[name] = from[n].config.global[name]

----------------------------------------------------------------------------
(* C5 *)

\* res is the union of base and overlay per scope, overlay's value on a name of
\* both; a context of overlay alone is taken whole; nothing of base is removed
CombineUnion(base, overlay, res) ==
    /\ DOMAIN res.global = DOMAIN base.global \cup DOMAIN overlay.global
    /\ \A n \in DOMAIN overlay.global : res.global[n] = overlay.global[n]
    /\ \A n \in DOMAIN base.global \ DOMAIN overlay.global : res.global[n] = base.global[n]
    /\ DOMAIN res.contexts \subseteq DOMAIN base.contexts \cup DOMAIN overlay.contexts
    /\ \A b \in DOMAIN base.contexts :
           /\ b \in DOMAIN res.contexts
           /\ LET over == UNION { DOMAIN overlay.contexts[o] : o \in Occupied(overlay.contexts, b) }
              IN  /\ DOMAIN res.contexts[b] = DOMAIN base.contexts[b] \cup over
                  /\ \A n \in DOMAIN base.contexts[b] \ over :
                         res.contexts[b][n] = base.contexts[b][n]
                  /\ \A o \in Occupied(overlay.contexts, b) : \A n \in DOMAIN overlay.contexts[o] :
                         res.contexts[b][n] = overlay.contexts[o][n]
    /\ \A o \in DOMAIN overlay.contexts :
           Occupied(base.contexts, o) = {} =>
               o \in DOMAIN res.contexts /\ res.contexts[o] = overlay.contexts[o]

\* the step is a call of combine_configs: a file was read and gave a Configuration
Combines ==
    /\ Len(reads') = Len(reads) + 1
    /\ fs[reads'[Len(reads')]].state = "Ok"
    /\ pc' # "exited"

\* C5: every call combine_configs(combined, overlay) leaves in `combined` the
\* union of both per scope with overlay's value on every collision, inserts a
\* context of overlay alone wholesale, and leaves every other entry of base as
\* it was.
C5_CombineIsOverlayUnion ==
    [][Combines =>
          CombineUnion(combined, read_config(fs, reads'[Len(reads')]).config, combined')]_vars

\* the accumulator after the first k reads
RECURSIVE CombinedAfter(_)
CombinedAfter(k) ==
    IF k = 0 THEN EmptyConfiguration
    ELSE IF read_config(fs, reads[k]).kind = "Some"
         THEN combine_configs(CombinedAfter(k - 1), read_config(fs, reads[k]).config)
    ELSE CombinedAfter(k - 1)

\* A call has happened in which base and overlay had a context in common
\* (under different spellings) with a name in common and another of base
\* alone, and overlay brought a context of its own.
C5_Witness ==
    /\ pc # "exited"
    /\ Len(reads) >= 2
    /\ read_config(fs, reads[Len(reads)]).kind = "Some"
    /\ LET base == CombinedAfter(Len(reads) - 1)
           overlay == read_config(fs, reads[Len(reads)]).config
       IN  /\ combined = CombinedAfter(Len(reads))
           /\ \E b \in DOMAIN base.contexts, o \in DOMAIN overlay.contexts :
                 /\ PathEq(b, o)
                 /\ \E n \in DOMAIN base.contexts[b] \cap DOMAIN overlay.contexts[o] :
                        base.contexts[b][n] # overlay.contexts[o][n]
           /\ \E o \in DOMAIN overlay.contexts : Occupied(base.contexts, o) = {}
           /\ \E n \in DOMAIN base.global : n \notin DOMAIN overlay.global

----------------------------------------------------------------------------
(* C6 *)

\* a table holds a value that is neither a string nor a table of strings
HasBadValue(tbl) ==
    \E k \in DOMAIN tbl :
        \/ tbl[k].type \notin {"string", "table"}
        \/ tbl[k].type = "table" /\ \E n \in DOMAIN tbl[k].tbl : tbl[k].tbl[n].type # "string"

\* the file exists and cannot be loaded
Fails(file) ==
    \/ file.state \in {"PermissionDenied", "ParseError"}
    \/ file.state = "Ok" /\ HasBadValue(file.toml)

\* the positions of the load order whose file cannot be loaded
Failing(order) == { i \in 1..Len(order) : Fails(fs[order[i]]) }

First(S) == CHOOSE i \in S : \A j \in S : i <= j

\* C6: a missing file contributes nothing and is no error (all missing gives
\* the empty Configuration); the first file that fails in any other way ends
\* the load there: the error names that file, no Configuration is returned, no
\* later file is read, no path is printed and the exit code is 1.
C6_LoadAllOrNothing ==
    LET order == LoadOrder(cwd)
        failing == Failing(order)
    IN  /\ failing = {} =>
               /\ stderr.kind # "fatal"
               /\ exit_code.exited => exit_code.code = 0
               /\ (\A i \in 1..Len(order) : fs[order[i]] = Absent) =>
                      /\ combined = EmptyConfiguration
                      /\ (Len(reads) = Len(order) => config = Returned(EmptyConfiguration))
        /\ failing # {} =>
               LET first == First(failing)
               IN  /\ ~config.returned
                   /\ pc # "resolve"
                   /\ Len(reads) <= first
                   /\ stdout = <<>>
                   /\ result = NoPath
                   /\ Len(reads) = first =>
                          /\ pc = "exited"
                          /\ exit_code = Exited(1)
                          /\ stderr.kind = "fatal"
                          /\ stderr.file = order[first]

\* A load that failed on a file after one that had been merged, with a file
\* still to come that was not read.
C6_Witness ==
    LET order == LoadOrder(cwd)
        failing == Failing(order)
    IN  /\ failing # {}
        /\ pc = "exited"
        /\ First(failing) > 1
        /\ First(failing) < Len(order)
        /\ Len(reads) = First(failing)
        /\ reads = SubSeq(order, 1, First(failing))
        /\ combined # EmptyConfiguration
        /\ exit_code = Exited(1)

----------------------------------------------------------------------------
(* C8 *)

\* the spelling of an absolute path from its components
RECURSIVE Render(_)
Render(comps) ==
    IF comps = <<>> THEN <<>>
    ELSE IF Head(comps).kind = "RootDir"
         THEN <<"/">> \o Render(Tail(comps))
    ELSE Head(comps).s \o (IF Len(comps) > 1 THEN <<"/">> ELSE <<>>) \o Render(Tail(comps))

\* absolute, no '..', no home marker left, and spelled as its components are
Canonical(p) ==
    /\ is_absolute(p)
    /\ \A i \in 1..Len(components(p)) :
           /\ components(p)[i].kind \in {"RootDir", "Normal"}
           /\ components(p)[i].kind = "Normal" => components(p)[i].s[1] # "~"
    /\ p = Render(components(p))

\* every path stored in a Configuration
StoredPaths(cfg) ==
    DOMAIN cfg.contexts
    \cup { cfg.global[n] : n \in DOMAIN cfg.global }
    \cup UNION { { cfg.contexts[c][n] : n \in DOMAIN cfg.contexts[c] } : c \in DOMAIN cfg.contexts }

\* C8: every path stored in a Configuration (context path keys and
\* destinations) is absolute and canonical: no residual '~', no '.'/'..', no
\* redundant separator.
C8_StoredPathsCanonical == \A p \in StoredPaths(combined) : Canonical(p)

----------------------------------------------------------------------------
(* C9 *)

\* C9: process_config keeps every entry of the file: a top-level string k is
\* in global, resolved against relative_to, and every (name, value) of a table
\* under header k is in the context normalize(k, relative_to), resolved against
\* that context path.
C9_EveryEntryKept ==
    \A i \in 1..Len(reads) :
        LET file == fs[reads[i]]
            rel == parent(reads[i]).path
            r == process_config(file.toml, rel)
        IN  (file.state = "Ok" /\ r.ok) =>
                \A k \in DOMAIN file.toml :
                    IF file.toml[k].type = "table"
                    THEN LET context_path == join(rel, k)
                         IN  \E c \in DOMAIN r.config.contexts :
                                 /\ PathEq(c, context_path)
                                 /\ \A n \in DOMAIN file.toml[k].tbl :
                                        /\ n \in DOMAIN r.config.contexts[c]
                                        /\ r.config.contexts[c][n] =
                                               parse_toml_as_path(file.toml[k].tbl[n], context_path).path
                    ELSE /\ k \in DOMAIN r.config.global
                         /\ r.config.global[k] = parse_toml_as_path(file.toml[k], rel).path

----------------------------------------------------------------------------
(* C10 *)

\* a onto b with one separator between them unless a ends with one
Concat(a, b) == IF a[Len(a)] = "/" THEN a \o b ELSE a \o <<"/">> \o b

HasHomeMarker(s) == Len(s) >= 2 /\ s[1] = "~" /\ s[2] \in {"/", "\\"}

\* C10: a value with the home marker resolves to the home directory joined
\* with the remainder whatever the base is; an absolute value resolves to
\* itself whatever the base is; any other string resolves to the base joined
\* with it; a value that is no string is a type error and gives no path.
C10_NormalizeByCase ==
    parsed.called =>
        IF t.type # "string" THEN ~parsed.ok /\ parsed.path = <<>>
        ELSE /\ parsed.ok
             /\ IF HasHomeMarker(t.s)
                THEN LET rest == SubSeq(t.s, 3, Len(t.s))
                     IN  parsed.path = IF rest # <<>> /\ rest[1] = "/" THEN rest
                                       ELSE Concat(HomeDir, rest)
                ELSE IF t.s # <<>> /\ t.s[1] = "/" THEN parsed.path = t.s
                ELSE parsed.path = Concat(relative_to, t.s)

\* The '~\' marker resolved under the home directory, from a base that is not
\* the home directory.
C10_Witness ==
    /\ parsed.called
    /\ parsed.ok
    /\ t.type = "string"
    /\ Len(t.s) = 3
    /\ t.s[1] = "~" /\ t.s[2] = "\\" /\ t.s[3] = "p"
    /\ relative_to # HomeDir
    /\ parsed.path = <<"/", "h", "/", "p">>

====
